---- MODULE Spec2Model ----
(***************************************************************************)
(* Model of the GGFW Win32 windowing layer (src/Framework/Framework.cpp).  *)
(*                                                                         *)
(* One application thread ("the caller") uses the public tsd:: interface.  *)
(* Every tsd::CreateWindow call that passes validation allocates a         *)
(* WindowData record and starts a message thread running                   *)
(* in::WindowData::MessageHandler on it.  Record k of `data` is the k-th   *)
(* record allocated, and thread k is the thread started on it.             *)
(*                                                                         *)
(* Statements that touch shared, unsynchronised data are separate steps,   *)
(* so that every interleaving of the threads is a behaviour of the model.  *)
(* The non-atomic updates of windowCount are a read step and a write step. *)
(***************************************************************************)
EXTENDS Integers, Sequences, FiniteSets, TLC

VARIABLES
    isInitialised,      \* in::WindowInfo.isInitialised
    classRegistered,    \* the window class is known to the operating system
    lastErrorCode,      \* in::WindowInfo.lastErrorCode
    windowCount,        \* in::WindowInfo.windowCount
    windowsOpened,      \* in::WindowInfo.windowsOpened
    windowIsFinished,   \* in::WindowInfo.windowIsFinished
    isRunning,          \* in::WindowInfo.isRunning
    windows,            \* in::WindowInfo.windows: sequence of record indexes
    mtxHeld,            \* in::WindowInfo.mtx is held (only the caller holds it across steps)
    data,               \* the WindowData records on the heap, in allocation order
    native,             \* the native window of each message thread
    tpc,                \* position of each message thread in MessageHandler
    treg,               \* the value of windowCount each thread last loaded
    callerPc,           \* position of the application thread
    call,               \* arguments of the tsd::CreateWindow call in progress
    success,            \* the local `success` of the tsd::Initialise call in progress
    ret,                \* what the last returned public call handed back
    report,             \* the last error report shown: reporter, dialogs, thrown or not
    terminated,         \* std::terminate was called: the process is gone
    joinPos,            \* position of tsd::Uninitialise in its first loop, 0 outside it
    joined,             \* the records whose msgThread->join() has returned
    freed               \* the records deleted so far, one entry per delete

vars == <<isInitialised, classRegistered, lastErrorCode, windowCount, windowsOpened,
          windowIsFinished, isRunning, windows, mtxHeld, data, native, tpc, treg,
          callerPc, call, success, ret, report, terminated, joinPos, joined,
          freed>>

-----------------------------------------------------------------------------
(* Bounds of the model *)

\* number of tsd::CreateWindow calls that pass validation, in the
\* specification of the windowing protocol
MaxWindows == 2

\* the same, in the specification of the whole interface
MaxApiWindows == 1

\* the same, in the specification with fair scheduling
MaxLiveWindows == 1

\* how often tsd::Uninitialise may delete one record
MaxFrees == 2

-----------------------------------------------------------------------------
(* Values *)

NullPtr == "nullptr"

\* Argument values on both sides of every check of tsd::CreateWindow: a
\* name and the null pointer, widths and heights below, at and above 0.
CheckedArgs == [name : {NullPtr, "a"}, width : {-1, 0, 1}, height : {-1, 0, 1},
                xPos : {0}, yPos : {0}]

\* Valid arguments that differ in every field; position 0 asks for the
\* default position.
VariedArgs == [name : {"a", "b"}, width : {1, 2}, height : {1, 2},
               xPos : {0, 7}, yPos : {0, 7}]

\* The calls made where the arguments do not matter: one name, one size,
\* default position (and the null pointer, for a read of an unwritten name).
FewArgs == [name : {NullPtr, "a"}, width : {1}, height : {1}, xPos : {0}, yPos : {0}]

NoCall == [name |-> NullPtr, width |-> 0, height |-> 0, xPos |-> 0, yPos |-> 0]

\* the message threads started so far, and a range that holds all that the
\* specifications below can start
Threads == 1..Len(tpc)
ThreadIds == 1..(MaxWindows + MaxApiWindows + MaxLiveWindows)

\* the native handles the operating system hands out; 0 is the null handle
Handles == ThreadIds

-----------------------------------------------------------------------------
(* Initial state: the global in::WindowInfo before tsd::Initialise *)

NoRet == [op |-> "none", val |-> 0, mbr |-> "none", owner |-> 0, threw |-> FALSE]

NoReport == [dialogs |-> 0, threw |-> FALSE, quit |-> FALSE]

Init ==
    /\ isInitialised = FALSE
    /\ classRegistered = FALSE
    /\ lastErrorCode = 0
    /\ windowCount = 0
    /\ windowsOpened = 0
    /\ windowIsFinished = FALSE
    /\ isRunning = TRUE
    /\ windows = <<>>
    /\ mtxHeld = FALSE
    /\ data = <<>>
    /\ native = <<>>
    /\ tpc = <<>>
    /\ treg = <<>>
    /\ callerPc = "idle"
    /\ call = NoCall
    /\ success = TRUE
    /\ ret = NoRet
    /\ report = NoReport
    /\ terminated = FALSE
    /\ joinPos = 0
    /\ joined = {}
    /\ freed = <<>>

-----------------------------------------------------------------------------
(* Error reporters *)

\* tsd::GetWindowCount
GetWindowCount == windowCount

\* tsd::Running
Running == isRunning

\* in::SetLastError
SetLastError(code) == lastErrorCode' = code

\* tsd::GetLastError
GetLastError == lastErrorCode

\* mutant: no exception when the system message text is missing
CreateWin32DebugError_ThrowsWithTextOnly(eMsg) ==
    [dialogs |-> 1, threw |-> eMsg, quit |-> TRUE]

\* in::CreateWin32DebugError: the text is built with the system message when
\* FormatMessage produced one (eMsg) and without it otherwise; one dialog is
\* shown after either branch, then the exception is thrown.
CreateWin32DebugError(eMsg) ==
    [dialogs |-> (IF eMsg THEN 0 ELSE 0) + 1, threw |-> TRUE, quit |-> TRUE]

\* in::CreateWin32ReleaseError: write the log file, show one dialog, throw.
CreateWin32ReleaseError ==
    [dialogs |-> 1, threw |-> TRUE, quit |-> TRUE]

\* the body of tsd::CreateAutoDebugError: one dialog, then throw when quit.
AutoDebugError(quit) ==
    [dialogs |-> 1, threw |-> quit, quit |-> quit]

\* A fatal Win32 error (the WIN32_EC / WIN32_EC_RET check around an API call):
\* the debug or the release reporter runs, depending on the build.
FatalReports ==
    {CreateWin32DebugError(e) : e \in BOOLEAN} \cup {CreateWin32ReleaseError}

-----------------------------------------------------------------------------
(* The application thread: tsd::Initialise *)

\* mutant: the icon's error code is kept when the cursor fails as well
InitialiseLoad_IconErrorWins(iconId, cursorId, iconOk, cursorOk) ==
    /\ ~terminated
    /\ callerPc = "idle"
    /\ lastErrorCode' =
         IF iconId # 0 /\ ~iconOk THEN 5
         ELSE IF cursorId # 0 /\ ~cursorOk THEN 6
         ELSE lastErrorCode
    /\ success' = ~((iconId # 0 /\ ~iconOk) \/ (cursorId # 0 /\ ~cursorOk))
    /\ callerPc' = "register"
    /\ UNCHANGED <<joinPos, joined, freed, isInitialised, classRegistered, windowCount,
                   windowsOpened, windowIsFinished, isRunning, windows, mtxHeld,
                   data, native, tpc, treg, call, ret, report, terminated>>

\* tsd::Initialise, first half: load the requested icon and cursor.
InitialiseLoad(iconId, cursorId, iconOk, cursorOk) ==
    /\ ~terminated
    /\ callerPc = "idle"
    /\ lastErrorCode' =
         IF cursorId # 0 /\ ~cursorOk THEN 6
         ELSE IF iconId # 0 /\ ~iconOk THEN 5
         ELSE lastErrorCode
    /\ success' = ~((iconId # 0 /\ ~iconOk) \/ (cursorId # 0 /\ ~cursorOk))
    /\ callerPc' = "register"
    /\ UNCHANGED <<joinPos, joined, freed, isInitialised, classRegistered, windowCount, windowsOpened,
                   windowIsFinished, isRunning, windows, mtxHeld, data, native,
                   tpc, treg, call, ret, report, terminated>>

\* what tsd::Initialise returns
InitialiseReturn ==
    [NoRet EXCEPT !.op = "Initialise", !.val = IF success THEN 1 ELSE 0]

\* tsd::Initialise, second half: RegisterClassEx succeeded.
InitialiseRegister ==
    /\ ~terminated
    /\ callerPc = "register"
    /\ ~classRegistered
    /\ classRegistered' = TRUE
    /\ isInitialised' = TRUE
    /\ ret' = InitialiseReturn
    /\ success' = TRUE
    /\ callerPc' = "idle"
    /\ UNCHANGED <<joinPos, joined, freed, lastErrorCode, windowCount, windowsOpened, windowIsFinished,
                   isRunning, windows, mtxHeld, data, native, tpc, treg, call,
                   report, terminated>>

\* tsd::Initialise, second half: RegisterClassEx failed (it always does when
\* the class is registered already).  The fatal reporter throws out of
\* tsd::Initialise, so this call does not set isInitialised; the exception
\* is not caught and ends the process.
InitialiseRegisterFail(r) ==
    /\ ~terminated
    /\ callerPc = "register"
    /\ report' = r
    /\ IF r.threw
       THEN /\ ret' = [NoRet EXCEPT !.op = "Initialise", !.threw = TRUE]
            /\ UNCHANGED isInitialised
       ELSE /\ isInitialised' = TRUE
            /\ ret' = InitialiseReturn
    /\ terminated' = r.threw
    /\ success' = TRUE
    /\ callerPc' = "idle"
    /\ UNCHANGED <<joinPos, joined, freed, classRegistered, lastErrorCode, windowCount, windowsOpened,
                   windowIsFinished, isRunning, windows, mtxHeld, data, native,
                   tpc, treg, call>>

-----------------------------------------------------------------------------
(* The application thread: tsd::CreateWindow *)

\* mutant: the size checks use < instead of <=
Validate_StrictSizes(a) ==
    IF ~isInitialised THEN 2
    ELSE IF a.name = NullPtr THEN 3
    ELSE IF (a.height < 0) \/ (a.width < 0) THEN 3
    ELSE 0

\* the argument checks of tsd::CreateWindow: 0 when the call goes on, else
\* the error code it sets
Validate(a) ==
    IF ~isInitialised THEN 2
    ELSE IF a.name = NullPtr THEN 3
    ELSE IF (a.height <= 0) \/ (a.width <= 0) THEN 3
    ELSE 0

\* a WindowData record as operator new leaves it: no field written yet
NewWindowData ==
    [written |-> FALSE, name |-> NullPtr, width |-> 0, height |-> 0,
     xPos |-> 0, yPos |-> 0, isValid |-> FALSE, id |-> 0, hWnd |-> 0]

NoNative == [state |-> "none", name |-> NullPtr, width |-> 0, height |-> 0,
             x |-> 0, y |-> 0]

\* tsd::CreateWindow, rejected by a check: set the error code, return 0.
CreateWindowReject(a) ==
    /\ ~terminated
    /\ callerPc = "idle"
    /\ Validate(a) # 0
    /\ SetLastError(Validate(a))
    /\ ret' = [NoRet EXCEPT !.op = "CreateWindow", !.val = 0]
    /\ UNCHANGED <<joinPos, joined, freed, success, isInitialised, classRegistered, windowCount, windowsOpened,
                   windowIsFinished, isRunning, windows, mtxHeld, data, native,
                   tpc, treg, callerPc, call, report, terminated>>

\* tsd::CreateWindow, checks passed: allocate the record and start its
\* message thread.  The fields are not written yet.
CreateWindowSpawn(a, maxw) ==
    /\ ~terminated
    /\ callerPc = "idle"
    /\ Validate(a) = 0
    /\ Len(data) < maxw
    /\ data' = Append(data, NewWindowData)
    /\ native' = Append(native, NoNative)
    /\ tpc' = Append(tpc, "create")
    /\ treg' = Append(treg, 0)
    /\ call' = a
    /\ callerPc' = "spawned"
    /\ UNCHANGED <<joinPos, joined, freed, success, isInitialised, classRegistered, lastErrorCode, windowCount,
                   windowsOpened, windowIsFinished, isRunning, windows, mtxHeld,
                   ret, report, terminated>>

\* the record of the call in progress
cur == Len(data)

\* tsd::CreateWindow: store the arguments in the record, set isValid.
CreateWindowWrite ==
    /\ ~terminated
    /\ callerPc = "spawned"
    /\ data' = [data EXCEPT ![cur] =
                  [@ EXCEPT !.written = TRUE, !.name = call.name,
                            !.width = call.width, !.height = call.height,
                            !.xPos = call.xPos, !.yPos = call.yPos,
                            !.isValid = TRUE]]
    /\ callerPc' = "lock"
    /\ UNCHANGED <<joinPos, joined, freed, success, isInitialised, classRegistered, lastErrorCode, windowCount,
                   windowsOpened, windowIsFinished, isRunning, windows, mtxHeld,
                   native, tpc, treg, call, ret, report, terminated>>

\* tsd::CreateWindow: std::unique_lock lock(mtx), and re-locking inside
\* cv.wait after a wake-up.
CreateWindowLock ==
    /\ ~terminated
    /\ callerPc \in {"lock", "woken"}
    /\ ~mtxHeld
    /\ mtxHeld' = TRUE
    /\ callerPc' = "check"
    /\ UNCHANGED <<joinPos, joined, freed, success, isInitialised, classRegistered, lastErrorCode, windowCount,
                   windowsOpened, windowIsFinished, isRunning, windows, data,
                   native, tpc, treg, call, ret, report, terminated>>

\* tsd::CreateWindow: cv.wait(lock, pred) evaluates the predicate with the
\* mutex held; when it is false the mutex is released and the caller blocks.
CreateWindowWait ==
    /\ ~terminated
    /\ callerPc = "check"
    /\ IF windowIsFinished
       THEN callerPc' = "passed" /\ UNCHANGED mtxHeld
       ELSE callerPc' = "waiting" /\ mtxHeld' = FALSE
    /\ UNCHANGED <<joinPos, joined, freed, success, isInitialised, classRegistered, lastErrorCode, windowCount,
                   windowsOpened, windowIsFinished, isRunning, windows, data,
                   native, tpc, treg, call, ret, report, terminated>>

\* a spurious wake-up of the condition variable
SpuriousWakeup ==
    /\ ~terminated
    /\ callerPc = "waiting"
    /\ callerPc' = "woken"
    /\ UNCHANGED <<joinPos, joined, freed, success, isInitialised, classRegistered, lastErrorCode, windowCount,
                   windowsOpened, windowIsFinished, isRunning, windows, mtxHeld,
                   data, native, tpc, treg, call, ret, report, terminated>>

\* the value tsd::CreateWindow returns: the record's id as a short
ToShort(n) == ((n + 32768) % 65536) - 32768

\* mutant: windowIsFinished is not cleared
CreateWindowFinish_NoReset ==
    /\ ~terminated
    /\ callerPc = "passed"
    /\ windows' = Append(windows, cur)
    /\ ret' = [NoRet EXCEPT !.op = "CreateWindow", !.val = ToShort(data[cur].id)]
    /\ mtxHeld' = FALSE
    /\ call' = NoCall
    /\ callerPc' = "idle"
    /\ UNCHANGED <<joinPos, joined, freed, success, isInitialised, classRegistered, lastErrorCode, windowCount,
                   windowsOpened, windowIsFinished, isRunning, data, native, tpc,
                   treg, report, terminated>>

\* mutant: the record is not appended to the windows list
CreateWindowFinish_NoPush ==
    /\ ~terminated
    /\ callerPc = "passed"
    /\ windowIsFinished' = FALSE
    /\ ret' = [NoRet EXCEPT !.op = "CreateWindow", !.val = ToShort(data[cur].id)]
    /\ mtxHeld' = FALSE
    /\ call' = NoCall
    /\ callerPc' = "idle"
    /\ UNCHANGED <<joinPos, joined, freed, success, isInitialised, classRegistered, lastErrorCode, windowCount,
                   windowsOpened, windows, isRunning, data, native, tpc, treg,
                   report, terminated>>

\* tsd::CreateWindow: append the record, clear the flag, return the id; the
\* mutex is released on return.
CreateWindowFinish ==
    /\ ~terminated
    /\ callerPc = "passed"
    /\ windows' = Append(windows, cur)
    /\ windowIsFinished' = FALSE
    /\ ret' = [NoRet EXCEPT !.op = "CreateWindow", !.val = ToShort(data[cur].id)]
    /\ mtxHeld' = FALSE
    /\ call' = NoCall
    /\ callerPc' = "idle"
    /\ UNCHANGED <<joinPos, joined, freed, success, isInitialised, classRegistered, lastErrorCode, windowCount,
                   windowsOpened, isRunning, data, native, tpc, treg, report,
                   terminated>>

-----------------------------------------------------------------------------
(* The message threads: in::WindowData::MessageHandler and in::WindowProc *)

\* CW_USEDEFAULT of the Win32 headers, and the CW_DEFAULT the source uses for
\* the vertical position
CW_USEDEFAULT == -2147483647 - 1
CW_DEFAULT == CW_USEDEFAULT

\* what CreateWindowEx is handed for a set of field values
NativeArgs(f) ==
    [state |-> "open", name |-> f.name, width |-> f.width, height |-> f.height,
     x |-> IF f.xPos = 0 THEN CW_USEDEFAULT ELSE f.xPos,
     y |-> IF f.yPos = 0 THEN CW_DEFAULT ELSE f.yPos]

\* the values a read of the record's name, width, height, xPos and yPos can
\* give: what was stored, or anything at all when nothing was stored yet
FieldReads(t, any) ==
    IF data[t].written
    THEN {[name |-> data[t].name, width |-> data[t].width, height |-> data[t].height,
           xPos |-> data[t].xPos, yPos |-> data[t].yPos]}
    ELSE any

\* handles of the native windows that exist, and all handles used so far
OpenHandles == {data[u].hWnd : u \in {v \in Threads : native[v].state = "open"}}
UsedHandles == {data[u].hWnd : u \in {v \in Threads : native[v].state # "none"}}

\* The handle of a new window is any handle no existing window has: one
\* that a destroyed window had, or a new one.  New handles are numbered in
\* the order of their first use.
FreeHandles ==
    {h \in Handles : h \notin OpenHandles /\ \A g \in 1..(h - 1) : g \in UsedHandles}

\* MessageHandler: CreateWindowEx succeeded and hWnd is set.
ThreadCreate(t, h, f, any) ==
    /\ ~terminated
    /\ t \in Threads
    /\ tpc[t] = "create"
    /\ classRegistered
    /\ h \in FreeHandles
    /\ f \in FieldReads(t, any)
    /\ native' = [native EXCEPT ![t] = NativeArgs(f)]
    /\ data' = [data EXCEPT ![t].hWnd = h]
    /\ tpc' = [tpc EXCEPT ![t] = "inc_load"]
    /\ UNCHANGED <<joinPos, joined, freed, isInitialised, classRegistered, lastErrorCode, windowCount,
                   windowsOpened, windowIsFinished, isRunning, windows, mtxHeld,
                   treg, callerPc, call, success, ret, report, terminated>>

\* MessageHandler: CreateWindowEx failed, hWnd is null and the fatal reporter
\* runs; its exception leaves the thread function, which ends the process.
ThreadCreateFail(t, r) ==
    /\ ~terminated
    /\ t \in Threads
    /\ tpc[t] = "create"
    /\ report' = r
    /\ terminated' = r.threw
    /\ tpc' = [tpc EXCEPT ![t] = IF r.threw THEN "create" ELSE "inc_load"]
    /\ UNCHANGED <<joinPos, joined, freed, isInitialised, classRegistered, lastErrorCode, windowCount,
                   windowsOpened, windowIsFinished, isRunning, windows, mtxHeld,
                   data, native, treg, callerPc, call, success, ret>>

\* MessageHandler: windowCount += 1, the load
ThreadIncLoad(t) ==
    /\ ~terminated
    /\ t \in Threads
    /\ tpc[t] = "inc_load"
    /\ treg' = [treg EXCEPT ![t] = windowCount]
    /\ tpc' = [tpc EXCEPT ![t] = "inc_store"]
    /\ UNCHANGED <<joinPos, joined, freed, isInitialised, classRegistered, lastErrorCode, windowCount,
                   windowsOpened, windowIsFinished, isRunning, windows, mtxHeld,
                   data, native, callerPc, call, success, ret, report, terminated>>

\* MessageHandler: windowCount += 1, the store (the loaded value is dead afterwards)
ThreadIncStore(t) ==
    /\ ~terminated
    /\ t \in Threads
    /\ tpc[t] = "inc_store"
    /\ windowCount' = treg[t] + 1
    /\ treg' = [treg EXCEPT ![t] = 0]
    /\ tpc' = [tpc EXCEPT ![t] = "opened"]
    /\ UNCHANGED <<joinPos, joined, freed, isInitialised, classRegistered, lastErrorCode, windowsOpened,
                   windowIsFinished, isRunning, windows, mtxHeld, data, native,
                   callerPc, call, success, ret, report, terminated>>

\* mutant: the id is taken from windowCount
ThreadOpened_IdFromCount(t) ==
    /\ ~terminated
    /\ t \in Threads
    /\ tpc[t] = "opened"
    /\ windowsOpened' = windowsOpened + 1
    /\ data' = [data EXCEPT ![t].id = windowCount]
    /\ tpc' = [tpc EXCEPT ![t] = "signal"]
    /\ UNCHANGED <<joinPos, joined, freed, isInitialised, classRegistered, lastErrorCode, windowCount,
                   windowIsFinished, isRunning, windows, mtxHeld, native, treg,
                   callerPc, call, success, ret, report, terminated>>

\* MessageHandler: windowsOpened += 1; id = windowsOpened; ShowWindow
ThreadOpened(t) ==
    /\ ~terminated
    /\ t \in Threads
    /\ tpc[t] = "opened"
    /\ windowsOpened' = windowsOpened + 1
    /\ data' = [data EXCEPT ![t].id = windowsOpened + 1]
    /\ tpc' = [tpc EXCEPT ![t] = "signal"]
    /\ UNCHANGED <<joinPos, joined, freed, isInitialised, classRegistered, lastErrorCode, windowCount,
                   windowIsFinished, isRunning, windows, mtxHeld, native, treg,
                   callerPc, call, success, ret, report, terminated>>

\* MessageHandler: lock the mutex, set windowIsFinished, unlock
ThreadSignal(t) ==
    /\ ~terminated
    /\ t \in Threads
    /\ tpc[t] = "signal"
    /\ ~mtxHeld
    /\ windowIsFinished' = TRUE
    /\ tpc' = [tpc EXCEPT ![t] = "notify"]
    /\ UNCHANGED <<joinPos, joined, freed, isInitialised, classRegistered, lastErrorCode, windowCount,
                   windowsOpened, isRunning, windows, mtxHeld, data, native, treg,
                   callerPc, call, success, ret, report, terminated>>

\* mutant: the condition variable is not notified
ThreadNotify_NoWake(t) ==
    /\ ~terminated
    /\ t \in Threads
    /\ tpc[t] = "notify"
    /\ tpc' = [tpc EXCEPT ![t] = "pump"]
    /\ UNCHANGED <<joinPos, joined, freed, isInitialised, classRegistered, lastErrorCode, windowCount,
                   windowsOpened, windowIsFinished, isRunning, windows, mtxHeld,
                   data, native, treg, callerPc, call, success, ret, report,
                   terminated>>

\* MessageHandler: cv.notify_one() wakes the caller when it is waiting and
\* does nothing otherwise; the thread enters its message pump.
ThreadNotify(t) ==
    /\ ~terminated
    /\ t \in Threads
    /\ tpc[t] = "notify"
    /\ callerPc' = IF callerPc = "waiting" THEN "woken" ELSE callerPc
    /\ tpc' = [tpc EXCEPT ![t] = "pump"]
    /\ UNCHANGED <<joinPos, joined, freed, isInitialised, classRegistered, lastErrorCode, windowCount,
                   windowsOpened, windowIsFinished, isRunning, windows, mtxHeld,
                   data, native, treg, call, success, ret, report, terminated>>

\* The user closes the window: the pump dispatches WM_CLOSE to
\* in::WindowProc, which calls DestroyWindow, which delivers WM_DESTROY; that
\* handler clears isRunning when tsd::GetWindowCount() is 1.  The window is
\* gone afterwards, so GetMessage fails and the pump ends.
WindowProcDestroy(t) ==
    /\ ~terminated
    /\ t \in Threads
    /\ tpc[t] = "pump"
    /\ native[t].state = "open"
    /\ isRunning' = IF GetWindowCount = 1 THEN FALSE ELSE isRunning
    /\ native' = [native EXCEPT ![t].state = "destroyed"]
    /\ tpc' = [tpc EXCEPT ![t] = "dec_load"]
    /\ UNCHANGED <<joinPos, joined, freed, isInitialised, classRegistered, lastErrorCode, windowCount,
                   windowsOpened, windowIsFinished, windows, mtxHeld, data, treg,
                   callerPc, call, success, ret, report, terminated>>

\* MessageHandler: windowCount -= 1, the load
ThreadDecLoad(t) ==
    /\ ~terminated
    /\ t \in Threads
    /\ tpc[t] = "dec_load"
    /\ treg' = [treg EXCEPT ![t] = windowCount]
    /\ tpc' = [tpc EXCEPT ![t] = "dec_store"]
    /\ UNCHANGED <<joinPos, joined, freed, isInitialised, classRegistered, lastErrorCode, windowCount,
                   windowsOpened, windowIsFinished, isRunning, windows, mtxHeld,
                   data, native, callerPc, call, success, ret, report, terminated>>

\* MessageHandler: windowCount -= 1, the store
ThreadDecStore(t) ==
    /\ ~terminated
    /\ t \in Threads
    /\ tpc[t] = "dec_store"
    /\ windowCount' = treg[t] - 1
    /\ treg' = [treg EXCEPT ![t] = 0]
    /\ tpc' = [tpc EXCEPT ![t] = "invalidate"]
    /\ UNCHANGED <<joinPos, joined, freed, isInitialised, classRegistered, lastErrorCode, windowsOpened,
                   windowIsFinished, isRunning, windows, mtxHeld, data, native,
                   callerPc, call, success, ret, report, terminated>>

\* MessageHandler: isValid = false; the thread function returns
ThreadInvalidate(t) ==
    /\ ~terminated
    /\ t \in Threads
    /\ tpc[t] = "invalidate"
    /\ data' = [data EXCEPT ![t].isValid = FALSE]
    /\ tpc' = [tpc EXCEPT ![t] = "done"]
    /\ UNCHANGED <<joinPos, joined, freed, isInitialised, classRegistered, lastErrorCode, windowCount,
                   windowsOpened, windowIsFinished, isRunning, windows, mtxHeld,
                   native, treg, callerPc, call, success, ret, report, terminated>>

-----------------------------------------------------------------------------
(* The application thread: lookups, tsd::MessageBox, tsd::CreateAutoDebugError *)

\* in::GetWindowData(int id): the first valid record of the list with this
\* id, or 0 for nullptr
GetWindowDataById(id) ==
    LET hits == {k \in 1..Len(windows) :
                    data[windows[k]].id = id /\ data[windows[k]].isValid}
    IN  IF hits = {} THEN 0
        ELSE windows[CHOOSE k \in hits : \A j \in hits : k <= j]

\* in::GetWindowData(HWND handle): the first valid record of the list with
\* this handle, or 0 for nullptr
GetWindowDataByHandle(handle) ==
    LET hits == {k \in 1..Len(windows) :
                    data[windows[k]].hWnd = handle /\ data[windows[k]].isValid}
    IN  IF hits = {} THEN 0
        ELSE windows[CHOOSE k \in hits : \A j \in hits : k <= j]

\* result ids of the native MessageBox
IDOK == 1
IDCANCEL == 2
IDABORT == 3
IDRETRY == 4
IDIGNORE == 5
IDYES == 6
IDNO == 7
IDTRYAGAIN == 10
IDCONTINUE == 11

\* everything the native MessageBox can return: 0 (failure), the ids above,
\* and ids the switch does not name
NativeResults == 0..11

\* mutant: IDTRYAGAIN falls into the IDRETRY case
MBRof_TryAgainAsRetry(result) ==
    CASE result = IDABORT -> "ABORT"
      [] result = IDCANCEL -> "CANCEL"
      [] result = IDCONTINUE -> "CONTINUE"
      [] result = IDIGNORE -> "IGNORE"
      [] result = IDNO -> "NO"
      [] result = IDOK -> "OK"
      [] result = IDRETRY -> "RETRY"
      [] result = IDTRYAGAIN -> "RETRY"
      [] result = IDYES -> "YES"
      [] OTHER -> "CANCEL"

\* the switch at the end of tsd::MessageBox
MBRof(result) ==
    CASE result = IDABORT -> "ABORT"
      [] result = IDCANCEL -> "CANCEL"
      [] result = IDCONTINUE -> "CONTINUE"
      [] result = IDIGNORE -> "IGNORE"
      [] result = IDNO -> "NO"
      [] result = IDOK -> "OK"
      [] result = IDRETRY -> "RETRY"
      [] result = IDTRYAGAIN -> "TRYAGAIN"
      [] result = IDYES -> "YES"
      [] OTHER -> "CANCEL"

\* the owner handle tsd::MessageBox passes on: ownerData ? ownerData->hWnd : 0
OwnerHandle(owner) ==
    LET ownerData == GetWindowDataById(owner)
    IN  IF ownerData # 0 THEN data[ownerData].hWnd ELSE 0

\* ids the application may pass as owner
OwnerArgs == 0..(MaxApiWindows + 1)

\* resource ids passed to tsd::Initialise: 0 asks for no resource
ResourceIds == {0, 1}

\* tsd::MessageBox: look the owner up, show the dialog, translate its result.
MessageBox(owner, result) ==
    /\ ~terminated
    /\ callerPc = "idle"
    /\ ret' = [NoRet EXCEPT !.op = "MessageBox", !.val = result,
                            !.owner = OwnerHandle(owner), !.mbr = MBRof(result)]
    /\ UNCHANGED <<joinPos, joined, freed, isInitialised, classRegistered, lastErrorCode, windowCount,
                   windowsOpened, windowIsFinished, isRunning, windows, mtxHeld,
                   data, native, tpc, treg, callerPc, call, success, report,
                   terminated>>

\* ids and handles a lookup may be given: 0, those of the windows, and one
\* that no window can have
LookupArgs == 0..(MaxWindows + 1)

\* A call of in::GetWindowData, by handle or by id: ret names the overload
\* (op), the argument (owner) and the record returned (val, 0 for nullptr).
GetWindowData(byHandle, arg) ==
    /\ ~terminated
    /\ callerPc = "idle"
    /\ ret' = [NoRet EXCEPT
                 !.op = IF byHandle THEN "GetWindowDataByHandle" ELSE "GetWindowDataById",
                 !.owner = arg,
                 !.val = IF byHandle THEN GetWindowDataByHandle(arg)
                                     ELSE GetWindowDataById(arg)]
    /\ UNCHANGED <<joinPos, joined, freed, isInitialised, classRegistered, lastErrorCode, windowCount,
                   windowsOpened, windowIsFinished, isRunning, windows, mtxHeld,
                   data, native, tpc, treg, callerPc, call, success, report,
                   terminated>>

\* tsd::CreateAutoDebugError: one dialog with the last error code and its
\* text, then throw when quit; the exception is not caught and ends the
\* process.
CreateAutoDebugError(quit) ==
    /\ ~terminated
    /\ callerPc = "idle"
    /\ report' = AutoDebugError(quit)
    /\ ret' = [NoRet EXCEPT !.op = "CreateAutoDebugError", !.threw = report'.threw]
    /\ terminated' = report'.threw
    /\ UNCHANGED <<joinPos, joined, freed, isInitialised, classRegistered, lastErrorCode, windowCount,
                   windowsOpened, windowIsFinished, isRunning, windows, mtxHeld,
                   data, native, tpc, treg, callerPc, call, success>>

-----------------------------------------------------------------------------
(* The application thread: tsd::Uninitialise *)

\* how often a record was deleted
Frees(w) == Cardinality({i \in 1..Len(freed) : freed[i] = w})

\* tsd::Uninitialise is entered: its first loop starts at the head of the
\* windows list.
UninitialiseBegin ==
    /\ ~terminated
    /\ callerPc = "idle"
    /\ \A k \in 1..Len(windows) : Frees(windows[k]) < MaxFrees
    /\ joinPos' = 1
    /\ callerPc' = "join"
    /\ UNCHANGED <<joined, freed, isInitialised, classRegistered, lastErrorCode,
                   windowCount, windowsOpened, windowIsFinished, isRunning, windows,
                   mtxHeld, data, native, tpc, treg, call, success, ret, report,
                   terminated>>

\* tsd::Uninitialise, first loop: w->msgThread->join() for the next record of
\* the list.  It returns when the message thread has left MessageHandler.  On
\* a thread object that was joined before, join throws, and the exception is
\* not caught; on a record that was deleted, w and w->msgThread are read from
\* freed memory, and the call may as well go unnoticed (passes).
UninitialiseJoin(passes) ==
    /\ ~terminated
    /\ callerPc = "join"
    /\ joinPos <= Len(windows)
    /\ LET w == windows[joinPos]
       IN  IF w \in joined
           THEN /\ passes => Frees(w) > 0
                /\ terminated' = ~passes
                /\ joinPos' = IF passes THEN joinPos + 1 ELSE joinPos
                /\ UNCHANGED joined
           ELSE /\ passes
                /\ tpc[w] = "done"
                /\ joined' = joined \cup {w}
                /\ joinPos' = joinPos + 1
                /\ UNCHANGED terminated
    /\ UNCHANGED <<freed, isInitialised, classRegistered, lastErrorCode, windowCount,
                   windowsOpened, windowIsFinished, isRunning, windows, mtxHeld,
                   data, native, tpc, treg, callerPc, call, success, ret, report>>

\* tsd::Uninitialise, after the first loop: UnregisterClass succeeded, which
\* takes a registered class that no existing window was created with.
UninitialiseUnregister ==
    /\ ~terminated
    /\ callerPc = "join"
    /\ joinPos > Len(windows)
    /\ classRegistered
    /\ OpenHandles = {}
    /\ classRegistered' = FALSE
    /\ joinPos' = 0
    /\ callerPc' = "delete"
    /\ UNCHANGED <<joined, freed, isInitialised, lastErrorCode, windowCount,
                   windowsOpened, windowIsFinished, isRunning, windows, mtxHeld,
                   data, native, tpc, treg, call, success, ret, report, terminated>>

\* tsd::Uninitialise, after the first loop: UnregisterClass failed.  The
\* fatal reporter throws out of tsd::Uninitialise before anything is deleted;
\* the exception is not caught and ends the process.
UninitialiseUnregisterFail(r) ==
    /\ ~terminated
    /\ callerPc = "join"
    /\ joinPos > Len(windows)
    /\ report' = r
    /\ terminated' = r.threw
    /\ joinPos' = 0
    /\ IF r.threw
       THEN /\ ret' = [NoRet EXCEPT !.op = "Uninitialise", !.threw = TRUE]
            /\ callerPc' = "idle"
       ELSE /\ callerPc' = "delete"
            /\ UNCHANGED ret
    /\ UNCHANGED <<joined, freed, isInitialised, classRegistered, lastErrorCode,
                   windowCount, windowsOpened, windowIsFinished, isRunning, windows,
                   mtxHeld, data, native, tpc, treg, call, success>>

\* tsd::Uninitialise, second loop: delete w->msgThread and delete w for every
\* record of the list, which is left as it is; then the call returns.
UninitialiseDelete ==
    /\ ~terminated
    /\ callerPc = "delete"
    /\ freed' = freed \o windows
    /\ ret' = [NoRet EXCEPT !.op = "Uninitialise"]
    /\ callerPc' = "idle"
    /\ UNCHANGED <<joinPos, joined, isInitialised, classRegistered, lastErrorCode,
                   windowCount, windowsOpened, windowIsFinished, isRunning, windows,
                   mtxHeld, data, native, tpc, treg, call, success, report,
                   terminated>>

-----------------------------------------------------------------------------
(* Specifications *)

\* The inputs a specification draws from: the arguments of tsd::CreateWindow
\* (args), the values a read of an unwritten field can give (any), how many
\* calls pass validation (maxw), the resource ids of tsd::Initialise (ids), and
\* the owners and native results of tsd::MessageBox (owners, results).

\* tsd::Initialise and the tsd::CreateWindow calls that pass validation
CallerStep(in) ==
    \/ \E iconId \in in.ids, cursorId \in in.ids, iconOk \in BOOLEAN,
          cursorOk \in BOOLEAN : InitialiseLoad(iconId, cursorId, iconOk, cursorOk)
    \/ InitialiseRegister
    \/ \E r \in FatalReports : InitialiseRegisterFail(r)
    \/ \E a \in in.args : CreateWindowSpawn(a, in.maxw)
    \/ CreateWindowWrite
    \/ CreateWindowLock
    \/ CreateWindowWait
    \/ CreateWindowFinish
    \/ SpuriousWakeup

ThreadStep(t, in) ==
    \/ \E h \in Handles, f \in in.any : ThreadCreate(t, h, f, in.any)
    \/ \E r \in FatalReports : ThreadCreateFail(t, r)
    \/ ThreadIncLoad(t)
    \/ ThreadIncStore(t)
    \/ ThreadOpened(t)
    \/ ThreadSignal(t)
    \/ ThreadNotify(t)
    \/ WindowProcDestroy(t)
    \/ ThreadDecLoad(t)
    \/ ThreadDecStore(t)
    \/ ThreadInvalidate(t)

\* The windowing protocol: up to MaxWindows windows, created with few
\* different arguments.
FewInputs ==
    [args |-> FewArgs, any |-> FewArgs, maxw |-> MaxWindows, ids |-> {0}]

Next ==
    \/ CallerStep(FewInputs)
    \/ \E t \in ThreadIds : ThreadStep(t, FewInputs)

Spec == Init /\ [][Next]_vars

\* Calls with arguments on both sides of every check, rejected calls, error
\* reports and all resource ids: up to MaxApiWindows windows.
ApiInputs ==
    [args |-> CheckedArgs, any |-> FewArgs, maxw |-> MaxApiWindows, ids |-> ResourceIds]

ApiNext ==
    \/ CallerStep(ApiInputs)
    \/ \E a \in ApiInputs.args : CreateWindowReject(a)
    \/ \E quit \in BOOLEAN : CreateAutoDebugError(quit)
    \/ \E t \in ThreadIds : ThreadStep(t, ApiInputs)

ApiSpec == Init /\ [][ApiNext]_vars

\* Message boxes with every owner id and native result, next to up to
\* MaxApiWindows windows.
MsgInputs ==
    [args |-> FewArgs, any |-> FewArgs, maxw |-> MaxApiWindows, ids |-> {0}]

MsgNext ==
    \/ CallerStep(MsgInputs)
    \/ \E owner \in OwnerArgs, result \in NativeResults : MessageBox(owner, result)
    \/ \E t \in ThreadIds : ThreadStep(t, MsgInputs)

MsgSpec == Init /\ [][MsgNext]_vars

\* Lookups by id and by handle, next to up to MaxWindows windows.
LookupNext ==
    \/ CallerStep(FewInputs)
    \/ \E byHandle \in BOOLEAN, arg \in LookupArgs : GetWindowData(byHandle, arg)
    \/ \E t \in ThreadIds : ThreadStep(t, FewInputs)

LookupSpec == Init /\ [][LookupNext]_vars

\* tsd::Uninitialise, before and after tsd::Initialise, next to up to
\* MaxWindows windows.
UninitNext ==
    \/ CallerStep(FewInputs)
    \/ UninitialiseBegin
    \/ \E passes \in BOOLEAN : UninitialiseJoin(passes)
    \/ UninitialiseUnregister
    \/ \E r \in FatalReports : UninitialiseUnregisterFail(r)
    \/ UninitialiseDelete
    \/ \E t \in ThreadIds : ThreadStep(t, FewInputs)

UninitSpec == Init /\ [][UninitNext]_vars

\* Windows created with arguments that differ in every field; a read of an
\* unwritten field can give any of these values.
RaceInputs ==
    [args |-> VariedArgs, any |-> VariedArgs, maxw |-> MaxApiWindows, ids |-> {0}]

RaceNext ==
    \/ CallerStep(RaceInputs)
    \/ \E t \in ThreadIds : ThreadStep(t, RaceInputs)

RaceSpec == Init /\ [][RaceNext]_vars

\* Fair scheduling of the threads of the program.  The application decides
\* whether it calls tsd::Initialise or tsd::CreateWindow again, the user
\* decides whether a window is closed, and a spurious wake-up may never
\* happen: none of these is required to happen.  A thread that keeps trying
\* to lock the mutex gets it (strong fairness).
CallerProgress ==
    CreateWindowWrite \/ CreateWindowWait \/ CreateWindowFinish

ThreadProgress(t) ==
    \/ \E h \in Handles, f \in FewArgs : ThreadCreate(t, h, f, FewArgs)
    \/ ThreadIncLoad(t)
    \/ ThreadIncStore(t)
    \/ ThreadOpened(t)
    \/ ThreadNotify(t)

ThreadLocks(t) == ThreadSignal(t)

LiveInputs ==
    [args |-> FewArgs, any |-> FewArgs, maxw |-> MaxLiveWindows, ids |-> {0}]

LiveNext ==
    \/ CallerStep(LiveInputs)
    \/ \E t \in ThreadIds : ThreadStep(t, LiveInputs)

LiveSpec ==
    /\ Init
    /\ [][LiveNext]_vars
    /\ WF_vars(CallerProgress)
    /\ SF_vars(CreateWindowLock)
    /\ \A t \in 1..MaxLiveWindows : WF_vars(ThreadProgress(t)) /\ SF_vars(ThreadLocks(t))

-----------------------------------------------------------------------------
(* Claims about the windowing protocol *)

\* positions of the caller inside a tsd::CreateWindow call that passed validation
InCall == {"spawned", "lock", "check", "waiting", "woken", "passed"}

\* positions of a message thread after it has set windowIsFinished
AfterSignal == {"notify", "pump", "dec_load", "dec_store", "invalidate", "done"}

\* C1: a tsd::CreateWindow call returns only after the message thread it
\* started has created its native window, assigned the id and set
\* windowIsFinished (this holds for the call about to return and for every
\* call that has returned), and windowIsFinished is false whenever no
\* tsd::CreateWindow call is in progress.
C1_ReturnsAfterOwnThread ==
    /\ callerPc \notin InCall => ~windowIsFinished
    /\ callerPc = "passed" =>
          /\ tpc[cur] \in AfterSignal
          /\ native[cur].state # "none"
          /\ data[cur].id >= 1
    /\ \A k \in 1..Len(windows) :
          /\ tpc[windows[k]] \in AfterSignal
          /\ native[windows[k]].state # "none"
          /\ data[windows[k]].id >= 1

\* a second call is about to return while the first window's thread lives on
C1_Witness ==
    /\ callerPc = "passed"
    /\ Len(windows) = 1
    /\ cur = 2
    /\ tpc[1] = "pump"

\* every window created so far has been destroyed
AllDestroyed ==
    /\ Len(data) >= 1
    /\ \A t \in Threads : native[t].state = "destroyed"

\* tsd::Running() turns false in this step
RunningCleared == Running /\ ~Running'

\* C2: once every window has been destroyed tsd::Running() is false, and
\* tsd::Running() does not turn false while another window is still open.
C2_RunningFollowsLastWindow ==
    /\ [](AllDestroyed => ~Running)
    /\ [][RunningCleared => \A t \in Threads : native'[t].state # "open"]_vars

\* C3: every call that passes validation starts exactly one message thread
\* (one thread per record allocated, and outside a call as many threads as
\* records in the windows list, each record listed once); a thread in its
\* pump has its own window, and no two windows that exist share a handle.
C3_OneThreadPerWindow ==
    /\ Len(tpc) = Len(data)
    /\ Len(windows) = IF callerPc \in InCall THEN Len(tpc) - 1 ELSE Len(tpc)
    /\ \A k \in 1..Len(windows) : windows[k] = k
    /\ \A t \in Threads :
          /\ tpc[t] = "pump" => native[t].state = "open"
          /\ native[t].state # "none" => data[t].hWnd # 0
    /\ \A t \in Threads, u \in Threads :
          (t # u /\ native[t].state = "open" /\ native[u].state = "open")
             => data[t].hWnd # data[u].hWnd

\* two windows are open, each pumped by its own thread
C3_Witness ==
    /\ Len(windows) = 2
    /\ tpc[1] = "pump"
    /\ tpc[2] = "pump"

\* C9: the k-th call that passes validation returns id k, which is
\* windowsOpened when the call returns; ids are at least 1, increase from
\* call to call and are never used twice, closed windows included.
C9_IdsCountCalls ==
    /\ \A k \in 1..Len(windows) : data[windows[k]].id = k
    /\ \A t \in Threads, u \in Threads :
          (t # u /\ data[t].id # 0 /\ data[u].id # 0) => data[t].id # data[u].id
    /\ (ret.op = "CreateWindow" /\ ret.val # 0) =>
          /\ ret.val >= 1
          /\ ret.val = Len(windows)
          /\ callerPc \notin InCall => ret.val = windowsOpened

\* the second call has returned 2 after the first window was closed
C9_Witness ==
    /\ callerPc = "idle"
    /\ ret.op = "CreateWindow"
    /\ ret.val = 2
    /\ tpc[1] = "done"
    /\ tpc[2] = "pump"

\* a thread is in the middle of updating windowCount (or windowsOpened, which
\* it updates right after): between the creation of its window and the end
\* of its increments, or between the end of its pump and the end of its
\* decrement
Updating(t) == tpc[t] \in {"inc_load", "inc_store", "opened", "dec_load", "dec_store"}

\* the windows whose thread has created the native window and has not left
\* its message pump
LiveWindows == {t \in Threads : tpc[t] \in {"signal", "notify", "pump"}}

\* C10: whenever no thread is in the middle of updating it,
\* tsd::GetWindowCount() is the number of windows created and not yet out of
\* their pump; it is never negative and never above windowsOpened.
C10_CountIsLiveWindows ==
    (\A t \in Threads : ~Updating(t)) =>
        /\ GetWindowCount = Cardinality(LiveWindows)
        /\ GetWindowCount >= 0
        /\ GetWindowCount <= windowsOpened

\* C8: every tsd::CreateWindow call that passes validation returns, unless
\* the creation of the native window fails (which ends the process).
C8_CallReturns == (callerPc \in InCall) ~> (callerPc = "idle" \/ terminated)

\* the caller went to sleep on the condition variable before the signal
C8_WitnessWaitFirst ==
    /\ callerPc = "waiting"
    /\ tpc[cur] = "signal"

-----------------------------------------------------------------------------
(* Claims about the public interface *)

\* what the checks of tsd::CreateWindow are said to do with a call: the error
\* code of a rejected call, 0 for a call that goes on
SaidError(a) ==
    IF ~isInitialised THEN 2
    ELSE IF a.name = NullPtr \/ a.width <= 0 \/ a.height <= 0 THEN 3
    ELSE 0

\* C4: a tsd::CreateWindow call with the framework not initialised returns 0
\* with last error 2, one with a null name or a width or height <= 0 returns 0
\* with last error 3, and neither starts a thread or changes the windows
\* list, windowCount, windowsOpened or windowIsFinished; only calls without
\* such a fault go on; a call that goes on returns a non-zero id and leaves
\* the last error code as it was, from its first step to its return.
C4_RejectsWithoutSideEffects ==
    [][/\ (callerPc = "idle" /\ callerPc' = "idle") =>
            \A a \in CheckedArgs :
                CreateWindowReject(a) =>
                    /\ SaidError(a) # 0
                    /\ ret'.val = 0
                    /\ GetLastError' = SaidError(a)
                    /\ UNCHANGED <<joinPos, joined, freed, tpc, data, windows, windowCount, windowsOpened,
                                   windowIsFinished>>
       /\ (callerPc = "idle" /\ callerPc' = "spawned") =>
            \A a \in CheckedArgs :
                CreateWindowSpawn(a, MaxApiWindows) => SaidError(a) = 0
       /\ (callerPc \in InCall \/ callerPc' \in InCall) => GetLastError' = GetLastError
       /\ CreateWindowFinish => ret'.val # 0
      ]_vars

\* a call was rejected with error 3 while a window exists
C4_Witness ==
    /\ ret.op = "CreateWindow"
    /\ ret.val = 0
    /\ lastErrorCode = 3
    /\ Len(windows) = 1
    /\ tpc[1] = "pump"

\* the MBR value said to belong to each native result
SaidMBR(result) ==
    IF result = 1 THEN "OK"
    ELSE IF result = 2 THEN "CANCEL"
    ELSE IF result = 3 THEN "ABORT"
    ELSE IF result = 4 THEN "RETRY"
    ELSE IF result = 5 THEN "IGNORE"
    ELSE IF result = 6 THEN "YES"
    ELSE IF result = 7 THEN "NO"
    ELSE IF result = 10 THEN "TRYAGAIN"
    ELSE IF result = 11 THEN "CONTINUE"
    ELSE "CANCEL"

\* the listed records with this id whose isValid flag is set
ValidWithId(id) ==
    {t \in Threads : /\ \E k \in 1..Len(windows) : windows[k] = t
                     /\ data[t].id = id
                     /\ data[t].isValid}

\* C5: tsd::MessageBox returns the MBR value of the button the native dialog
\* reported and CANCEL for every other native result; with an owner id that
\* no valid window has, the dialog gets the null owner handle, and otherwise
\* the handle of a valid window with that id.  (The native result of a
\* tsd::MessageBox step is the val of what it returns.)
C5_MessageBoxResult ==
    [][(ret' # ret /\ ret'.op = "MessageBox") =>
          \A owner \in OwnerArgs, result \in {ret'.val} \cap NativeResults :
              MessageBox(owner, result) =>
                  /\ ret'.mbr = SaidMBR(result)
                  /\ ValidWithId(owner) = {} => ret'.owner = 0
                  /\ ValidWithId(owner) # {} =>
                        \E t \in ValidWithId(owner) : ret'.owner = data[t].hWnd
      ]_vars

\* a message box answered "try again" was shown after the only window closed
C5_Witness ==
    /\ ret.op = "MessageBox"
    /\ ret.mbr = "TRYAGAIN"
    /\ ret.owner = 0
    /\ Len(windows) = 1
    /\ ~data[1].isValid

\* the listed records, and the key a lookup compares: hWnd or id
Listed == {windows[k] : k \in 1..Len(windows)}
KeyOf(t, byHandle) == IF byHandle THEN data[t].hWnd ELSE data[t].id

\* the windows whose message pump has exited and whose thread has set
\* isValid to false
PumpExited == {t \in Threads : tpc[t] = "done"}

\* what a lookup that has just returned says: which overload, which argument
LookupReturns == ret' # ret /\ ret'.op \in {"GetWindowDataById", "GetWindowDataByHandle"}
LookupByHandle == ret'.op = "GetWindowDataByHandle"

\* C11: in::GetWindowData, by id or by handle, returns a record only if it
\* is listed, its id or hWnd equals the argument and its isValid flag is set;
\* it returns nullptr when no listed record is such; and once the message
\* pump of a window has exited and its thread has set isValid to false, a
\* lookup by the id or the handle of that window returns nullptr.
C11_LookupFindsLiveWindowsOnly ==
    [][LookupReturns =>
          /\ ret'.val # 0 =>
                /\ ret'.val \in Listed
                /\ KeyOf(ret'.val, LookupByHandle) = ret'.owner
                /\ data[ret'.val].isValid
          /\ (\A t \in Listed : ~(KeyOf(t, LookupByHandle) = ret'.owner /\ data[t].isValid))
                => ret'.val = 0
          /\ (\E t \in PumpExited : KeyOf(t, LookupByHandle) = ret'.owner)
                => ret'.val = 0
      ]_vars

\* C6: in::CreateWin32DebugError and in::CreateWin32ReleaseError show one
\* dialog and throw, with or without the system message text, so nothing goes
\* on after a fatal error (no thread works without a native window, the
\* framework is not initialised without a registered class);
\* tsd::CreateAutoDebugError shows one dialog and throws exactly when quit;
\* no reporter changes the last error code.
C6_ReportersThrow ==
    /\ [](/\ \A t \in Threads : tpc[t] # "create" => native[t].state # "none"
          /\ isInitialised => classRegistered)
    /\ [][(report' # report \/ ret' # ret \/ terminated' # terminated) =>
          /\ \A r \in FatalReports :
               ((\E t \in ThreadIds : ThreadCreateFail(t, r)) \/ InitialiseRegisterFail(r)) =>
                   /\ report'.dialogs = 1
                   /\ report'.threw
                   /\ terminated'
                   /\ GetLastError' = GetLastError
          /\ \A quit \in BOOLEAN :
               CreateAutoDebugError(quit) =>
                   /\ report'.dialogs = 1
                   /\ report'.threw = quit
                   /\ ret'.threw = quit
                   /\ GetLastError' = GetLastError
         ]_vars

\* the creation of a native window failed and was reported, after an error
\* code had been set
C6_Witness ==
    /\ Len(tpc) = 1
    /\ tpc[1] = "create"
    /\ report.dialogs = 1
    /\ terminated
    /\ lastErrorCode # 0

\* the arguments passed to the tsd::CreateWindow call that allocated record t
PassedArgs(t) ==
    IF t = cur /\ callerPc \in InCall
    THEN call
    ELSE [name |-> data[t].name, width |-> data[t].width, height |-> data[t].height,
          xPos |-> data[t].xPos, yPos |-> data[t].yPos]

\* C7: in every interleaving the native window is created with the name,
\* width, height, xPos and yPos passed to its tsd::CreateWindow call.
C7_CreatedWithPassedArgs ==
    \A t \in Threads : native[t].state # "none" => native[t] = NativeArgs(PassedArgs(t))

\* C12 has three parts, stated one by one and then together.

\* a call of tsd::Uninitialise returns
UninitialiseReturns == callerPc = "delete" /\ callerPc' = "idle"

\* tsd::Uninitialise returns only when the message thread of every listed
\* record has finished
C12_ReturnsAfterThreads ==
    [][UninitialiseReturns => \A w \in Listed : tpc[w] = "done"]_vars

\* a record is deleted only after its message thread was joined, so the
\* thread of a deleted record has finished
C12_FreedAfterJoin ==
    \A i \in 1..Len(freed) : freed[i] \in joined /\ tpc[freed[i]] = "done"

\* no record is deleted twice, and every listed record is deleted when
\* tsd::Uninitialise returns
C12_FreedOnce ==
    /\ [](\A w \in Threads : Frees(w) <= 1)
    /\ [][UninitialiseReturns => \A w \in Listed : Frees(w)' = 1]_vars

\* C12: tsd::Uninitialise returns only after the message thread of every
\* listed window has finished; it deletes a record and its thread object
\* only after that thread was joined, so no message thread runs on a deleted
\* record; and each record is deleted exactly once.
C12_UninitialiseJoinsThenFreesOnce ==
    /\ C12_ReturnsAfterThreads
    /\ []C12_FreedAfterJoin
    /\ C12_FreedOnce

\* what is said of the resources of a tsd::Initialise call: which of them
\* fail to load
IconFails(iconId, iconOk) == iconId # 0 /\ ~iconOk
CursorFails(cursorId, cursorOk) == cursorId # 0 /\ ~cursorOk

\* the steps of a tsd::Initialise call: it has loaded its resources, it
\* returns; and the public call that returns next is a tsd::CreateWindow
InitialiseLoads == callerPc = "idle" /\ callerPc' = "register"
InitialiseReturns == callerPc = "register" /\ ret'.op = "Initialise" /\ ~ret'.threw
CreateWindowFollows ==
    ret.op = "Initialise" /\ ~ret.threw /\ ret' # ret /\ ret'.op = "CreateWindow"

\* C13: tsd::Initialise returns true exactly when every requested resource
\* loaded: an icon that fails to load sets the last error to 5, a cursor
\* that fails to load sets it to 6 (also when the icon failed too), either
\* failure makes the result false, and a zero id cannot fail.  Whatever it
\* returns, the window class is registered and isInitialised is true
\* afterwards, and the tsd::CreateWindow call that follows is not rejected
\* with error 2.
C13_InitialiseResult ==
    [][/\ InitialiseLoads =>
            \A iconId \in ResourceIds, cursorId \in ResourceIds,
               iconOk \in BOOLEAN, cursorOk \in BOOLEAN :
                InitialiseLoad(iconId, cursorId, iconOk, cursorOk) =>
                    /\ success' = ~(IconFails(iconId, iconOk) \/ CursorFails(cursorId, cursorOk))
                    /\ CursorFails(cursorId, cursorOk) => GetLastError' = 6
                    /\ (IconFails(iconId, iconOk) /\ ~CursorFails(cursorId, cursorOk))
                          => GetLastError' = 5
       /\ InitialiseReturns =>
            /\ ret'.val = (IF success THEN 1 ELSE 0)
            /\ classRegistered'
            /\ isInitialised'
       /\ CreateWindowFollows => ~(ret'.val = 0 /\ GetLastError' = 2)
      ]_vars

\* tsd::Initialise returned false because the cursor did not load, and the
\* class is registered and the framework initialised all the same
C13_Witness ==
    /\ ret.op = "Initialise"
    /\ ~ret.threw
    /\ ret.val = 0
    /\ GetLastError = 6
    /\ classRegistered
    /\ isInitialised

====
